---- MODULE Spec2Model ----
(***************************************************************************)
(* Model of the Milvus configuration / parameter-mapping layer             *)
(* (vectordb_bench/backend/clients/milvus/config.py).                      *)
(*                                                                         *)
(* One behaviour is one use of the layer: a request is fixed in Init (the  *)
(* keyword arguments handed to a constructor, or the family tag handed to  *)
(* the registry) and the actions are the operations of the layer applied   *)
(* to it: construction, to_dict(), parse_metric(), index_param(),          *)
(* search_param() and the registry lookup.                                 *)
(*                                                                         *)
(* The classes are pydantic (v1: the validator takes a `field` argument)   *)
(* models.  What construction does is taken from that library: a keyword   *)
(* that is not passed takes the declared default, which is NOT validated   *)
(* or coerced; a required field that is not passed fails the construction; *)
(* a passed value is coerced to the declared type and then handed to the   *)
(* class validators; unknown keywords are ignored.                         *)
(***************************************************************************)
EXTENDS Integers, FiniteSets, Sequences, TLC

(***************************************************************************)
(* Bounds                                                                  *)
(***************************************************************************)
\* numeric knobs passed to a constructor range over 1..MaxKnob
MaxKnob == 1

(***************************************************************************)
(* Python values                                                           *)
(***************************************************************************)
Absent    == [t |-> "absent", v |-> ""]         \* keyword not passed
None      == [t |-> "None",   v |-> ""]
Num(n)    == [t |-> "int",    v |-> n]
Str(s)    == [t |-> "str",    v |-> s]
Enum(m)   == [t |-> "enum",   v |-> m]          \* a MetricType member
Secret(s) == [t |-> "secret", v |-> s]          \* a pydantic SecretStr

\* the distance metrics (MetricType is a str-valued enumeration)
MetricType == {"L2", "IP", "COSINE"}

\* Python truthiness: `if x`, `not x`
Truthy(x) ==
    CASE x.t = "None"   -> FALSE
      [] x.t = "absent" -> FALSE
      [] x.t = "int"    -> x.v # 0
      [] x.t = "str"    -> x.v # ""
      [] x.t = "secret" -> x.v # ""             \* SecretStr.__len__
      [] x.t = "enum"   -> TRUE

\* x == MetricType.<m>: a str-valued member equals the plain string too
EqMetric(x, m) == x.t \in {"enum", "str"} /\ x.v = m

\* results of an operation
Unset       == [t |-> "unset"]
Ret(x)      == [t |-> "ret", val |-> x]
Raised(e)   == [t |-> "raise", err |-> e]

(***************************************************************************)
(* MilvusIndexConfig and its ten variants: the declared fields             *)
(***************************************************************************)
Field(ty, req, dflt) == [type |-> ty, required |-> req, default |-> dflt]

\* class MilvusIndexConfig: metric_type: MetricType | None = None
MilvusIndexConfigFields == [metric_type |-> Field("MetricType", FALSE, None)]

AutoIndexConfigFields == MilvusIndexConfigFields

HNSWConfigFields ==
    [M              |-> Field("int", TRUE, None),
     efConstruction |-> Field("int", TRUE, None),
     ef             |-> Field("int", FALSE, None)] @@ MilvusIndexConfigFields

DISKANNConfigFields ==
    [search_list |-> Field("int", FALSE, None)] @@ MilvusIndexConfigFields

IVFFlatConfigFields ==
    [nlist  |-> Field("int", TRUE, None),
     nprobe |-> Field("int", FALSE, None)] @@ MilvusIndexConfigFields

IVFSQ8ConfigFields ==
    [nlist  |-> Field("int", TRUE, None),
     nprobe |-> Field("int", FALSE, None)] @@ MilvusIndexConfigFields

FLATConfigFields == MilvusIndexConfigFields

\* faulty variant: the device-cache flag given a default
GPUIVFFlatConfigFieldsNoFlag ==
    [nlist                   |-> Field("int", FALSE, Num(1024)),
     nprobe                  |-> Field("int", FALSE, Num(64)),
     cache_dataset_on_device |-> Field("str", FALSE, Str("false")),
     refine_ratio            |-> Field("float", FALSE, None)] @@ MilvusIndexConfigFields

GPUIVFFlatConfigFields ==
    [nlist                   |-> Field("int", FALSE, Num(1024)),
     nprobe                  |-> Field("int", FALSE, Num(64)),
     cache_dataset_on_device |-> Field("str", TRUE, None),
     refine_ratio            |-> Field("float", FALSE, None)] @@ MilvusIndexConfigFields

\* metric_type is redeclared as a required plain str
GPUBruteForceConfigFields ==
    [limit       |-> Field("int", FALSE, Num(10)),
     metric_type |-> Field("str", TRUE, None)] @@ MilvusIndexConfigFields

GPUIVFPQConfigFields ==
    [nlist                   |-> Field("int", FALSE, Num(1024)),
     m                       |-> Field("int", FALSE, Num(0)),
     nbits                   |-> Field("int", FALSE, Num(8)),
     nprobe                  |-> Field("int", FALSE, Num(32)),
     refine_ratio            |-> Field("float", FALSE, None),
     cache_dataset_on_device |-> Field("str", TRUE, None)] @@ MilvusIndexConfigFields

GPUCAGRAConfigFields ==
    [intermediate_graph_degree |-> Field("int", FALSE, Num(64)),
     graph_degree              |-> Field("int", FALSE, Num(32)),
     itopk_size                |-> Field("int", FALSE, Num(128)),
     team_size                 |-> Field("int", FALSE, Num(0)),
     search_width              |-> Field("int", FALSE, Num(4)),
     min_iterations            |-> Field("int", FALSE, Num(0)),
     max_iterations            |-> Field("int", FALSE, Num(0)),
     build_algo                |-> Field("str", FALSE, Str("IVF_PQ")),
     cache_dataset_on_device   |-> Field("str", TRUE, None),
     refine_ratio              |-> Field("float", FALSE, None)] @@ MilvusIndexConfigFields

Classes ==
    {"AutoIndexConfig", "HNSWConfig", "DISKANNConfig", "IVFFlatConfig",
     "IVFSQ8Config", "FLATConfig", "GPUIVFFlatConfig", "GPUIVFPQConfig",
     "GPUCAGRAConfig", "GPUBruteForceConfig"}

FieldsOf(cls) ==
    CASE cls = "AutoIndexConfig"     -> AutoIndexConfigFields
      [] cls = "HNSWConfig"          -> HNSWConfigFields
      [] cls = "DISKANNConfig"       -> DISKANNConfigFields
      [] cls = "IVFFlatConfig"       -> IVFFlatConfigFields
      [] cls = "IVFSQ8Config"        -> IVFSQ8ConfigFields
      [] cls = "FLATConfig"          -> FLATConfigFields
      [] cls = "GPUIVFFlatConfig"    -> GPUIVFFlatConfigFields
      [] cls = "GPUIVFPQConfig"      -> GPUIVFPQConfigFields
      [] cls = "GPUCAGRAConfig"      -> GPUCAGRAConfigFields
      [] cls = "GPUBruteForceConfig" -> GPUBruteForceConfigFields

\* the `index: IndexType = IndexType.<X>` default of each variant
IndexOf(cls) ==
    CASE cls = "AutoIndexConfig"     -> "AUTOINDEX"
      [] cls = "HNSWConfig"          -> "HNSW"
      [] cls = "DISKANNConfig"       -> "DISKANN"
      [] cls = "IVFFlatConfig"       -> "IVFFlat"
      [] cls = "IVFSQ8Config"        -> "IVFSQ8"
      [] cls = "FLATConfig"          -> "Flat"
      [] cls = "GPUIVFFlatConfig"    -> "GPU_IVF_FLAT"
      [] cls = "GPUIVFPQConfig"      -> "GPU_IVF_PQ"
      [] cls = "GPUCAGRAConfig"      -> "GPU_CAGRA"
      [] cls = "GPUBruteForceConfig" -> "GPU_BRUTE_FORCE"

(***************************************************************************)
(* Construction (pydantic BaseModel.__init__)                              *)
(***************************************************************************)
Passed(kwargs, f) == f \in DOMAIN kwargs /\ kwargs[f] # Absent

\* coercion of a passed value to the declared type: a str field keeps the
\* plain string of a str-valued enum member, a MetricType field holds the
\* member, a SecretStr field wraps a plain string
Coerce(ty, x) ==
    CASE ty = "str" /\ x.t = "enum"                        -> Str(x.v)
      [] ty = "MetricType" /\ x.t = "str"                  -> Enum(x.v)
      [] ty = "SecretStr" /\ x.t = "str"                   -> Secret(x.v)
      [] OTHER                                             -> x

MissingFields(fields, kwargs) ==
    {f \in DOMAIN fields : fields[f].required /\ ~Passed(kwargs, f)}

NewCase(cls, kwargs) ==
    LET fields == FieldsOf(cls) IN
    IF MissingFields(fields, kwargs) # {}
    THEN [t |-> "raise", err |-> "ValidationError", kind |-> "missing",
          loc |-> MissingFields(fields, kwargs)]
    ELSE [t |-> "obj", cls |-> cls, index |-> IndexOf(cls),
          f |-> [n \in DOMAIN fields |->
                   IF Passed(kwargs, n) THEN Coerce(fields[n].type, kwargs[n])
                   ELSE fields[n].default]]

(***************************************************************************)
(* MilvusIndexConfig.is_gpu_index / parse_metric                           *)
(***************************************************************************)
\* faulty variant: GPU_BRUTE_FORCE left out of the list
is_gpu_index_NoBruteForce(self) ==
    self.index \in {"GPU_CAGRA", "GPU_IVF_FLAT", "GPU_IVF_PQ"}

is_gpu_index(self) ==
    self.index \in {"GPU_CAGRA", "GPU_IVF_FLAT", "GPU_IVF_PQ", "GPU_BRUTE_FORCE"}

\* `self.metric_type.value`: only an enum member has the attribute
ValueOf(x) == IF x.t = "enum" THEN Ret(Str(x.v)) ELSE Raised("AttributeError")

parse_metric(self) ==
    IF ~Truthy(self.f.metric_type) THEN Ret(Str(""))
    ELSE IF is_gpu_index(self) /\ EqMetric(self.f.metric_type, "COSINE")
         THEN Ret(Str("L2"))
         ELSE ValueOf(self.f.metric_type)

(***************************************************************************)
(* index_param() / search_param() of each variant.  A dict is a function   *)
(* from its keys; the empty dict is << >>.  Every payload evaluates        *)
(* parse_metric() first, so an exception there is the payload's result.    *)
(***************************************************************************)
EmptyDict == << >>

IndexDict(self, params) ==
    IF parse_metric(self).t = "raise" THEN parse_metric(self)
    ELSE Ret([metric_type |-> parse_metric(self).val,
              index_type  |-> Str(self.index),     \* self.index.value, by member
              params      |-> params])

SearchDict(self, params) ==
    IF parse_metric(self).t = "raise" THEN parse_metric(self)
    ELSE Ret([metric_type |-> parse_metric(self).val, params |-> params])

AutoIndex_index_param(self) == IndexDict(self, EmptyDict)

\* no "params" key
AutoIndex_search_param(self) ==
    IF parse_metric(self).t = "raise" THEN parse_metric(self)
    ELSE Ret([metric_type |-> parse_metric(self).val])

HNSW_index_param(self) ==
    IndexDict(self, [M |-> self.f.M, efConstruction |-> self.f.efConstruction])

HNSW_search_param(self) == SearchDict(self, [ef |-> self.f.ef])

DISKANN_index_param(self) == IndexDict(self, EmptyDict)

DISKANN_search_param(self) == SearchDict(self, [search_list |-> self.f.search_list])

IVFFlat_index_param(self) == IndexDict(self, [nlist |-> self.f.nlist])

IVFFlat_search_param(self) == SearchDict(self, [nprobe |-> self.f.nprobe])

IVFSQ8_index_param(self) == IndexDict(self, [nlist |-> self.f.nlist])

IVFSQ8_search_param(self) == SearchDict(self, [nprobe |-> self.f.nprobe])

FLAT_index_param(self) == IndexDict(self, EmptyDict)

FLAT_search_param(self) == SearchDict(self, EmptyDict)

\* faulty variant: the probe count leaks into the build-time payload
GPUIVFFlat_index_param_WithProbe(self) ==
    IndexDict(self, [nlist |-> self.f.nlist, nprobe |-> self.f.nprobe,
                     cache_dataset_on_device |-> self.f.cache_dataset_on_device])

GPUIVFFlat_index_param(self) ==
    IndexDict(self, [nlist |-> self.f.nlist,
                     cache_dataset_on_device |-> self.f.cache_dataset_on_device])

GPUIVFFlat_search_param(self) ==
    SearchDict(self, [nprobe |-> self.f.nprobe, refine_ratio |-> self.f.refine_ratio])

GPUBruteForce_index_param(self) == IndexDict(self, EmptyDict)

GPUBruteForce_search_param(self) ==
    SearchDict(self, [nprobe |-> Num(1), limit |-> self.f.limit])

GPUIVFPQ_index_param(self) ==
    IndexDict(self, [nlist |-> self.f.nlist, m |-> self.f.m, nbits |-> self.f.nbits,
                     cache_dataset_on_device |-> self.f.cache_dataset_on_device])

GPUIVFPQ_search_param(self) ==
    SearchDict(self, [nprobe |-> self.f.nprobe, refine_ratio |-> self.f.refine_ratio])

GPUCAGRA_index_param(self) ==
    IndexDict(self, [intermediate_graph_degree |-> self.f.intermediate_graph_degree,
                     graph_degree |-> self.f.graph_degree,
                     build_algo |-> self.f.build_algo,
                     cache_dataset_on_device |-> self.f.cache_dataset_on_device])

GPUCAGRA_search_param(self) ==
    SearchDict(self, [team_size |-> self.f.team_size,
                      search_width |-> self.f.search_width,
                      itopk_size |-> self.f.itopk_size,
                      min_iterations |-> self.f.min_iterations,
                      max_iterations |-> self.f.max_iterations,
                      refine_ratio |-> self.f.refine_ratio])

\* method dispatch on the class of the object
index_param(self) ==
    CASE self.cls = "AutoIndexConfig"     -> AutoIndex_index_param(self)
      [] self.cls = "HNSWConfig"          -> HNSW_index_param(self)
      [] self.cls = "DISKANNConfig"       -> DISKANN_index_param(self)
      [] self.cls = "IVFFlatConfig"       -> IVFFlat_index_param(self)
      [] self.cls = "IVFSQ8Config"        -> IVFSQ8_index_param(self)
      [] self.cls = "FLATConfig"          -> FLAT_index_param(self)
      [] self.cls = "GPUIVFFlatConfig"    -> GPUIVFFlat_index_param(self)
      [] self.cls = "GPUIVFPQConfig"      -> GPUIVFPQ_index_param(self)
      [] self.cls = "GPUCAGRAConfig"      -> GPUCAGRA_index_param(self)
      [] self.cls = "GPUBruteForceConfig" -> GPUBruteForce_index_param(self)

search_param(self) ==
    CASE self.cls = "AutoIndexConfig"     -> AutoIndex_search_param(self)
      [] self.cls = "HNSWConfig"          -> HNSW_search_param(self)
      [] self.cls = "DISKANNConfig"       -> DISKANN_search_param(self)
      [] self.cls = "IVFFlatConfig"       -> IVFFlat_search_param(self)
      [] self.cls = "IVFSQ8Config"        -> IVFSQ8_search_param(self)
      [] self.cls = "FLATConfig"          -> FLAT_search_param(self)
      [] self.cls = "GPUIVFFlatConfig"    -> GPUIVFFlat_search_param(self)
      [] self.cls = "GPUIVFPQConfig"      -> GPUIVFPQ_search_param(self)
      [] self.cls = "GPUCAGRAConfig"      -> GPUCAGRA_search_param(self)
      [] self.cls = "GPUBruteForceConfig" -> GPUBruteForce_search_param(self)

(***************************************************************************)
(* MilvusConfig(DBConfig)                                                  *)
(***************************************************************************)
\* DBConfig.common_short_configs() / common_long_configs()
common_short_configs == {"version", "db_label"}

common_long_configs == {"note"}

\* uri's default is a plain str; db_label comes from DBConfig
MilvusConfigFields ==
    [uri      |-> Field("SecretStr", FALSE, Str("http://localhost:19530")),
     user     |-> Field("str", FALSE, None),
     password |-> Field("SecretStr", FALSE, None),
     db_label |-> Field("str", FALSE, Str(""))]

\* faulty variant: the credential fields are not exempt
not_empty_field_NoExemption(name, v) ==
    IF name \in common_short_configs \/ name \in common_long_configs
    THEN Ret(v)
    ELSE IF v.t \in {"str", "secret"} /\ v.v = ""
         THEN Raised("ValueError")
         ELSE Ret(v)

\* @validator("*") not_empty_field(cls, v, field)
not_empty_field(name, v) ==
    IF \/ name \in common_short_configs
       \/ name \in common_long_configs
       \/ name \in {"user", "password"}
    THEN Ret(v)
    ELSE IF v.t \in {"str", "secret"} /\ v.v = ""
         THEN Raised("ValueError")
         ELSE Ret(v)

\* MilvusConfig(**kwargs): the validator runs on the passed fields only
NewMilvusConfig(kwargs) ==
    LET fields == MilvusConfigFields
        given(n) == Coerce(fields[n].type, kwargs[n])
        bad == {n \in DOMAIN fields :
                   Passed(kwargs, n) /\ not_empty_field(n, given(n)).t = "raise"}
    IN  IF bad # {}
        THEN [t |-> "raise", err |-> "ValidationError", kind |-> "value_error",
              loc |-> bad]
        ELSE [t |-> "obj", cls |-> "MilvusConfig",
              f |-> [n \in DOMAIN fields |->
                       IF Passed(kwargs, n) THEN not_empty_field(n, given(n)).val
                       ELSE fields[n].default]]

\* x.get_secret_value()
get_secret_value(x) ==
    IF x.t = "secret" THEN Ret(Str(x.v)) ELSE Raised("AttributeError")

to_dict(self) ==
    LET pw == IF Truthy(self.f.password) THEN get_secret_value(self.f.password)
              ELSE Ret(None)
    IN  IF get_secret_value(self.f.uri).t = "raise" THEN get_secret_value(self.f.uri)
        ELSE IF pw.t = "raise" THEN pw
        ELSE Ret([uri      |-> get_secret_value(self.f.uri).val,
                  user     |-> IF Truthy(self.f.user) THEN self.f.user ELSE None,
                  password |-> pw.val])

(***************************************************************************)
(* The family registry                                                     *)
(***************************************************************************)
\* faulty variant: IVFSQ8 registered with the IVFFlat variant
milvus_case_config_Swapped ==
    [AUTOINDEX       |-> "AutoIndexConfig",
     HNSW            |-> "HNSWConfig",
     DISKANN         |-> "DISKANNConfig",
     IVFFlat         |-> "IVFFlatConfig",
     IVFSQ8          |-> "IVFFlatConfig",
     Flat            |-> "FLATConfig",
     GPU_IVF_FLAT    |-> "GPUIVFFlatConfig",
     GPU_IVF_PQ      |-> "GPUIVFPQConfig",
     GPU_CAGRA       |-> "GPUCAGRAConfig",
     GPU_BRUTE_FORCE |-> "GPUBruteForceConfig"]

milvus_case_config ==
    [AUTOINDEX       |-> "AutoIndexConfig",
     HNSW            |-> "HNSWConfig",
     DISKANN         |-> "DISKANNConfig",
     IVFFlat         |-> "IVFFlatConfig",
     IVFSQ8          |-> "IVFSQ8Config",
     Flat            |-> "FLATConfig",
     GPU_IVF_FLAT    |-> "GPUIVFFlatConfig",
     GPU_IVF_PQ      |-> "GPUIVFPQConfig",
     GPU_CAGRA       |-> "GPUCAGRAConfig",
     GPU_BRUTE_FORCE |-> "GPUBruteForceConfig"]

\* lookup of a family tag (the caller's side of the registry)
case_config_cls(index) ==
    IF index \in DOMAIN milvus_case_config
    THEN Ret(milvus_case_config[index])
    ELSE Raised("NotSupported")

(***************************************************************************)
(* Requests: what a caller hands to the layer.  Values are of the declared *)
(* types (None only where the annotation admits it; a metric as a          *)
(* MetricType member, or as a plain string where the field is a str).      *)
(***************************************************************************)
KnobIn      == {Absent} \cup {Num(n) : n \in 1..MaxKnob}
OptKnobIn   == KnobIn \cup {None}
MetricIn    == {Absent, None} \cup {Enum(m) : m \in MetricType}
StrMetricIn == {Absent, Str("")} \cup {Str(m) : m \in MetricType}
                   \cup {Enum(m) : m \in MetricType}
FlagIn      == {Absent, Str("true")}
AlgoIn      == {Absent, Str("NN_DESCENT")}

KwargsOf(cls) ==
    CASE cls = "AutoIndexConfig" -> [metric_type : MetricIn]
      [] cls = "FLATConfig"      -> [metric_type : MetricIn]
      [] cls = "HNSWConfig"      ->
           [metric_type : MetricIn, M : KnobIn, efConstruction : KnobIn, ef : OptKnobIn]
      [] cls = "DISKANNConfig"   -> [metric_type : MetricIn, search_list : OptKnobIn]
      [] cls = "IVFFlatConfig"   ->
           [metric_type : MetricIn, nlist : KnobIn, nprobe : OptKnobIn]
      [] cls = "IVFSQ8Config"    ->
           [metric_type : MetricIn, nlist : KnobIn, nprobe : OptKnobIn]
      [] cls = "GPUIVFFlatConfig" ->
           [metric_type : MetricIn, nlist : KnobIn, nprobe : KnobIn,
            cache_dataset_on_device : FlagIn, refine_ratio : OptKnobIn]
      [] cls = "GPUBruteForceConfig" ->
           [metric_type : StrMetricIn, limit : KnobIn,
            cache_dataset_on_device : FlagIn]
      [] cls = "GPUIVFPQConfig" ->
           [metric_type : MetricIn, nlist : KnobIn, m : KnobIn, nbits : KnobIn,
            nprobe : KnobIn, refine_ratio : OptKnobIn,
            cache_dataset_on_device : FlagIn]
      [] cls = "GPUCAGRAConfig" ->
           [metric_type : MetricIn, intermediate_graph_degree : KnobIn,
            graph_degree : KnobIn, itopk_size : KnobIn, team_size : KnobIn,
            search_width : KnobIn, min_iterations : KnobIn,
            max_iterations : KnobIn, build_algo : AlgoIn,
            cache_dataset_on_device : FlagIn, refine_ratio : OptKnobIn]

DbKwargs ==
    [uri      : {Absent, Str(""), Str("u"), Secret(""), Secret("u")},
     user     : {Absent, None, Str(""), Str("root")},
     password : {Absent, None, Str(""), Str("pw"), Secret(""), Secret("pw")},
     db_label : {Absent, Str(""), Str("run")}]

\* family tags of other backends, absent from the Milvus registry
UnregisteredTags == {"ES_HNSW", "ES_IVFFlat"}

Tags == DOMAIN milvus_case_config \cup UnregisteredTags

Request(op, cls, index, kwargs) ==
    [op |-> op, cls |-> cls, index |-> index, kwargs |-> kwargs]

\* the requests a behaviour may start from
IsRequest(r) ==
    \/ \E c \in Classes : \E k \in KwargsOf(c) : r = Request("case", c, "", k)
    \/ \E k \in DbKwargs : r = Request("db", "MilvusConfig", "", k)
    \/ \E i \in Tags : r = Request("lookup", "", i, << >>)

(***************************************************************************)
(* State                                                                   *)
(***************************************************************************)
VARIABLES
    request,        \* the caller's request
    db_config,      \* MilvusConfig(**kwargs): object or exception
    db_dict,        \* db_config.to_dict()
    case_config,    \* <Variant>Config(**kwargs): object or exception
    metric,         \* case_config.parse_metric()
    index_params,   \* case_config.index_param()
    search_params,  \* case_config.search_param()
    case_cls        \* registry lookup of request.index

vars == <<request, db_config, db_dict, case_config, metric, index_params,
          search_params, case_cls>>

Init ==
    /\ IsRequest(request)
    /\ db_config = Unset
    /\ db_dict = Unset
    /\ case_config = Unset
    /\ metric = Unset
    /\ index_params = Unset
    /\ search_params = Unset
    /\ case_cls = Unset

ConstructDb ==
    /\ request.op = "db"
    /\ db_config.t = "unset"
    /\ db_config' = NewMilvusConfig(request.kwargs)
    /\ UNCHANGED <<request, db_dict, case_config, metric, index_params,
                   search_params, case_cls>>

ToDict ==
    /\ db_config.t = "obj"
    /\ db_dict.t = "unset"
    /\ db_dict' = to_dict(db_config)
    /\ UNCHANGED <<request, db_config, case_config, metric, index_params,
                   search_params, case_cls>>

ConstructCase ==
    /\ request.op = "case"
    /\ case_config.t = "unset"
    /\ case_config' = NewCase(request.cls, request.kwargs)
    /\ UNCHANGED <<request, db_config, db_dict, metric, index_params,
                   search_params, case_cls>>

ParseMetric ==
    /\ case_config.t = "obj"
    /\ metric.t = "unset"
    /\ metric' = parse_metric(case_config)
    /\ UNCHANGED <<request, db_config, db_dict, case_config, index_params,
                   search_params, case_cls>>

IndexParam ==
    /\ case_config.t = "obj"
    /\ index_params.t = "unset"
    /\ index_params' = index_param(case_config)
    /\ UNCHANGED <<request, db_config, db_dict, case_config, metric,
                   search_params, case_cls>>

SearchParam ==
    /\ case_config.t = "obj"
    /\ search_params.t = "unset"
    /\ search_params' = search_param(case_config)
    /\ UNCHANGED <<request, db_config, db_dict, case_config, metric,
                   index_params, case_cls>>

Lookup ==
    /\ request.op = "lookup"
    /\ case_cls.t = "unset"
    /\ case_cls' = case_config_cls(request.index)
    /\ UNCHANGED <<request, db_config, db_dict, case_config, metric,
                   index_params, search_params>>

Next ==
    \/ ConstructDb
    \/ ToDict
    \/ ConstructCase
    \/ ParseMetric
    \/ IndexParam
    \/ SearchParam
    \/ Lookup

Spec == Init /\ [][Next]_vars

(***************************************************************************)
(* Properties                                                              *)
(***************************************************************************)
GpuFamilies == {"GPU_IVF_FLAT", "GPU_IVF_PQ", "GPU_CAGRA", "GPU_BRUTE_FORCE"}

RegisteredFamilies ==
    {"AUTOINDEX", "HNSW", "DISKANN", "IVFFlat", "IVFSQ8", "Flat",
     "GPU_IVF_FLAT", "GPU_IVF_PQ", "GPU_CAGRA", "GPU_BRUTE_FORCE"}

QueryOnlyKnobs ==
    {"ef", "search_list", "nprobe", "refine_ratio", "itopk_size", "team_size",
     "search_width", "min_iterations", "max_iterations", "limit"}

BuildOnlyKnobs ==
    {"M", "efConstruction", "nlist", "m", "nbits", "cache_dataset_on_device",
     "intermediate_graph_degree", "graph_degree", "build_algo"}

Built == case_config.t = "obj"

\* the request configures metric m (as a member or as its string)
Configured(m) ==
    request.op = "case" /\ request.kwargs.metric_type \in {Enum(m), Str(m)}

NoMetricConfigured ==
    request.op = "case" /\ request.kwargs.metric_type \in {Absent, None}

FlagOmitted ==
    request.op = "case" /\ ~Passed(request.kwargs, "cache_dataset_on_device")

MetricOf(payload) == payload.val.metric_type

ParamKeys(payload) ==
    IF payload.t = "ret" /\ "params" \in DOMAIN payload.val
    THEN DOMAIN payload.val.params
    ELSE {}

\* C1: a GPU-family config (GPU_IVF_FLAT, GPU_IVF_PQ, GPU_CAGRA,
\* GPU_BRUTE_FORCE) built with the cosine metric has parse_metric() = "L2",
\* and the metric_type of index_param() and of search_param() is "L2".
C1_GpuCosineIsL2 ==
    (Built /\ case_config.index \in GpuFamilies /\ Configured("COSINE")) =>
        /\ metric.t # "unset" => metric = Ret(Str("L2"))
        /\ index_params.t # "unset" =>
               index_params.t = "ret" /\ MetricOf(index_params) = Str("L2")
        /\ search_params.t # "unset" =>
               search_params.t = "ret" /\ MetricOf(search_params) = Str("L2")

C1_Witness ==
    /\ Built /\ case_config.index = "GPU_BRUTE_FORCE" /\ Configured("COSINE")
    /\ metric = Ret(Str("L2"))
    /\ index_params.t = "ret" /\ search_params.t = "ret"

\* C2: for every variant and configured metric m in {L2, IP, COSINE}, except
\* a GPU family with cosine, parse_metric() returns m's identifier unchanged
\* (GPU brute force with L2 or IP included).
C2_MetricUnchanged ==
    \A m \in MetricType :
        (/\ Built /\ Configured(m)
         /\ ~(case_config.index \in GpuFamilies /\ m = "COSINE")
         /\ metric.t # "unset")
        => metric = Ret(Str(m))

\* C3: for each of the ten variants a config built with no metric configured
\* exists (the construction succeeds when the variant's other required
\* knobs are given) and its parse_metric() is "".
C3_NoMetricIsEmpty ==
    (/\ NoMetricConfigured
     /\ MissingFields(FieldsOf(request.cls), request.kwargs) \subseteq {"metric_type"}
     /\ case_config.t # "unset")
    => /\ Built
       /\ metric.t # "unset" => metric = Ret(Str(""))
       /\ index_params.t # "unset" =>
              index_params.t = "ret" /\ MetricOf(index_params) = Str("")

\* C4: search_param() returns a mapping with exactly the keys metric_type and
\* params, its metric_type being that of index_param() of the same config.
C4_SearchParamShape ==
    (Built /\ search_params.t # "unset") =>
        /\ search_params.t = "ret"
        /\ DOMAIN search_params.val = {"metric_type", "params"}
        /\ index_params.t # "unset" =>
               index_params.t = "ret"
               /\ MetricOf(index_params) = MetricOf(search_params)

\* C5: the keys of index_param()["params"] contain no query-time-only knob,
\* the keys of search_param()["params"] contain no build-time-only knob, and
\* the two key sets of one config are disjoint (whenever the payloads are
\* rendered).
C5_KnobPlacement ==
    /\ ParamKeys(index_params) \cap QueryOnlyKnobs = {}
    /\ ParamKeys(search_params) \cap BuildOnlyKnobs = {}
    /\ ParamKeys(index_params) \cap ParamKeys(search_params) = {}

C5_Witness ==
    /\ Built /\ case_config.index = "GPU_IVF_FLAT"
    /\ ParamKeys(index_params) = {"nlist", "cache_dataset_on_device"}
    /\ ParamKeys(search_params) = {"nprobe", "refine_ratio"}

\* C6 (as stated): for all four GPU families, construction without
\* cache_dataset_on_device fails with a missing-required-field error.
C6_AllGpuNeedFlag ==
    (/\ FlagOmitted /\ IndexOf(request.cls) \in GpuFamilies
     /\ case_config.t # "unset")
    => /\ case_config.t = "raise"
       /\ case_config.kind = "missing"

\* C6 (amended): for GPU_IVF_FLAT, GPU_IVF_PQ and GPU_CAGRA, construction
\* without cache_dataset_on_device fails with a missing-required-field error
\* whatever the other fields are; GPUBruteForceConfig declares no such field
\* and is constructed without it whenever its metric_type is given.
C6_FlagRequiredWhereDeclared ==
    (FlagOmitted /\ case_config.t # "unset") =>
        /\ IndexOf(request.cls) \in {"GPU_IVF_FLAT", "GPU_IVF_PQ", "GPU_CAGRA"} =>
               /\ case_config.t = "raise"
               /\ case_config.kind = "missing"
               /\ "cache_dataset_on_device" \in case_config.loc
        /\ (/\ IndexOf(request.cls) = "GPU_BRUTE_FORCE"
            /\ Passed(request.kwargs, "metric_type")) =>
               /\ Built
               /\ "cache_dataset_on_device" \notin DOMAIN case_config.f

C6_Witness ==
    /\ FlagOmitted /\ request.cls = "GPUIVFFlatConfig"
    /\ Passed(request.kwargs, "nlist") /\ Passed(request.kwargs, "metric_type")
    /\ case_config.t = "raise"

\* C7: once a variant has been constructed, parse_metric(), index_param()
\* and search_param() never raise.
C7_NoRaiseAfterConstruction ==
    Built => /\ metric.t # "raise"
             /\ index_params.t # "raise"
             /\ search_params.t # "raise"

\* C8: MilvusConfig with an empty-string uri (plain or secret-wrapped) fails
\* with a validation error and yields no config; otherwise the construction
\* succeeds, also with an empty-string user, password or common field.
C8_EmptyEndpointRejected ==
    (request.op = "db" /\ db_config.t # "unset") =>
        IF request.kwargs.uri \in {Str(""), Secret("")}
        THEN db_config.t = "raise" /\ db_config.err = "ValidationError"
        ELSE db_config.t = "obj"

C8_Witness ==
    /\ request.op = "db"
    /\ request.kwargs.user = Str("")
    /\ request.kwargs.password \in {Str(""), Secret("")}
    /\ db_config.t = "obj"

\* C9: to_dict() returns exactly the keys uri, user, password, uri and
\* password unwrapped to raw strings; a credential not provided surfaces as
\* None, and one provided as an empty string stays distinguishable from it.
C9_ToDictDistinguishes ==
    db_dict.t # "unset" =>
        /\ db_dict.t = "ret"
        /\ DOMAIN db_dict.val = {"uri", "user", "password"}
        /\ db_dict.val.uri.t = "str"
        /\ db_dict.val.password.t \in {"str", "None"}
        /\ request.kwargs.user \in {Absent, None} => db_dict.val.user = None
        /\ request.kwargs.password \in {Absent, None} => db_dict.val.password = None
        /\ request.kwargs.user = Str("") => db_dict.val.user # None
        /\ request.kwargs.password \in {Str(""), Secret("")} =>
               db_dict.val.password # None

====
